---- MODULE Spec2Model ----
(***************************************************************************)
(* Model of llm/clipboard.py: the clipboard resolver, the per-platform     *)
(* image and text backend chains, and the outcomes of the libraries, the   *)
(* native clipboard API and the external processes they run.               *)
(*                                                                         *)
(* One step of the model is one statement (or one library call) of the     *)
(* source.  What a library call or a process does is the environment's     *)
(* choice, drawn with \E from the outcomes that call can have.             *)
(***************************************************************************)
EXTENDS Integers, Sequences, FiniteSets, TLC

\* ------------------------------------------------------------------ bounds
\* Longest clipboard payload (bytes of an image, characters of a text).
MaxLen == 1
\* Number of top-level calls made in one process lifetime.
MaxCalls == 2

\* ------------------------------------------------------------------ values
\* Optional[T]: None is the empty tuple, a present value v is <<v>>.
None == <<>>
Some(v) == <<v>>

\* Python truthiness of an Optional[bytes] / Optional[str]: None, b"" and ""
\* are falsy.
Truthy(o) == o # None /\ Len(o[1]) > 0

ByteVals == {0, 1}
Chars == {"a", "b"}

RECURSIVE SeqsUpTo(_, _)
SeqsUpTo(S, n) ==
    IF n = 0 THEN {<<>>}
    ELSE LET shorter == SeqsUpTo(S, n - 1)
         IN shorter \cup {Append(s, x) : s \in shorter, x \in S}

\* Byte strings and text strings the clipboard, a process or a library yields.
BytesVals == SeqsUpTo(ByteVals, MaxLen)
StrVals == SeqsUpTo(Chars, MaxLen)

\* A decoded PIL image: its pixel data.
Images == {[pixels |-> p] : p \in BytesVals}
NoImage == [pixels |-> <<255>>]

\* img.save(buffer, format="PNG"); buffer.getvalue(): the PNG signature
\* followed by the encoded pixel data.
PNG_SIGNATURE == <<137, 80, 78, 71, 13, 10, 26, 10>>
PngEncode(img) == PNG_SIGNATURE \o img.pixels

Platforms == {"win32", "darwin", "linux"}
Entries == {"resolve_clipboard", "get_clipboard_image", "get_clipboard_text"}

\* Content-type labels the byte sniffer can return.
MimeLabels == {"image/png", "image/jpeg"}
mimetype_from_string_results == {None} \cup {Some(m) : m \in MimeLabels}

\* subprocess.run(argv, capture_output=True): the executable cannot be
\* launched (run raises), or it runs to an exit code with captured output.
RunResultsBytes(cmd) ==
    {[cmd |-> cmd, exc |-> "FileNotFoundError", rc |-> -1, out |-> <<>>]}
    \cup {[cmd |-> cmd, exc |-> "none", rc |-> r, out |-> o] :
            r \in {0, 1}, o \in BytesVals}

\* subprocess.run(argv, capture_output=True, text=True): as above, and the
\* captured output is decoded, which raises UnicodeDecodeError inside run()
\* for output that is not valid in the locale's encoding, whatever the exit
\* code of the process was.
RunResultsText(cmd) ==
    {[cmd |-> cmd, exc |-> "FileNotFoundError", rc |-> -1, out |-> <<>>]}
    \cup {[cmd |-> cmd, exc |-> "UnicodeDecodeError", rc |-> r, out |-> <<>>] :
            r \in {0, 1}}
    \cup {[cmd |-> cmd, exc |-> "none", rc |-> r, out |-> o] :
            r \in {0, 1}, o \in StrVals}

\* Outcome of a chain or of a try block: a returned value or a raised exception.
Ret(v) == [kind |-> "return", val |-> v, exc |-> "none"]
Raise(e) == [kind |-> "raise", val |-> None, exc |-> e]
Pending == [kind |-> "pending", val |-> None, exc |-> "none"]

\* ------------------------------------------------------------------- state
VARIABLES
    platform,     \* sys.platform
    pc,           \* position in the code
    entry,        \* the function the caller called
    calls,        \* calls completed so far
    imgOut,       \* outcome of get_clipboard_image()
    txtOut,       \* outcome of get_clipboard_text()
    image_data,   \* resolve_clipboard: image_data
    text,         \* resolve_clipboard: text
    mimetype,     \* resolve_clipboard: mimetype
    result,       \* what the call gave its caller
    img,          \* the PIL image held by a backend step
    data,         \* GetClipboardData's value held by a backend step
    pending,      \* the return or exception a finally block is carrying
    clipOpen,     \* the native clipboard is open by this process
    opens,        \* successful OpenClipboard() calls of this call
    closes,       \* CloseClipboard() calls of this call
    closedUnopened, \* CloseClipboard() was called with the clipboard not open
    pilImport,    \* outcome of "from PIL import ImageGrab" in this call
    grab,         \* outcome of ImageGrab.grabclipboard() in this call
    step2,        \* step 2 of the image chain was attempted in this call
    procs,        \* the processes this call ran, in order
    imgCalls,     \* calls of get_clipboard_image() in this call
    txtCalls,     \* calls of get_clipboard_text() in this call
    sniffCalls,   \* calls of mimetype_from_string() in this call
    sniffed,      \* what mimetype_from_string() returned
    sniffArg,     \* what mimetype_from_string() was called on
    patched,      \* the chains are replaced by mocks, as the tests do
    order         \* the chains in the order this call invoked them

vars == <<platform, pc, entry, calls, imgOut, txtOut, image_data, text,
          mimetype, result, img, data, pending, clipOpen, opens, closes,
          closedUnopened, pilImport, grab, step2, procs, imgCalls, txtCalls,
          sniffCalls, sniffed, sniffArg, patched, order>>

\* What a resolver step leaves alone.
resolverVars == <<image_data, text, mimetype, result, sniffCalls, sniffed, sniffArg>>
nativeVars == <<clipOpen, opens, closes, closedUnopened>>
imageStepVars == <<pilImport, grab, step2>>
callVars == <<platform, entry, calls, imgCalls, txtCalls, order, patched>>

NoResult == [kind |-> "none"]

Init ==
    /\ platform \in Platforms
    /\ pc = "idle"
    /\ entry = "none"
    /\ calls = 0
    /\ imgOut = Pending
    /\ txtOut = Pending
    /\ image_data = None
    /\ text = None
    /\ mimetype = None
    /\ result = NoResult
    /\ img = NoImage
    /\ data = <<>>
    /\ pending = Pending
    /\ clipOpen = FALSE
    /\ opens = 0
    /\ closes = 0
    /\ closedUnopened = FALSE
    /\ pilImport = "untried"
    /\ grab = "untried"
    /\ step2 = FALSE
    /\ procs = <<>>
    /\ imgCalls = 0
    /\ txtCalls = 0
    /\ sniffCalls = 0
    /\ sniffed = None
    /\ sniffArg = None
    /\ patched = FALSE
    /\ order = <<>>

\* The caller calls resolve_clipboard(), get_clipboard_image() or
\* get_clipboard_text(); nothing of an earlier call is kept but the state of
\* the native clipboard handle.
Call ==
    /\ pc = "idle"
    /\ calls < MaxCalls
    /\ \E e \in Entries :
        /\ entry' = e
        /\ patched' \in (IF e = "resolve_clipboard" THEN BOOLEAN ELSE {FALSE})
        /\ pc' = IF e = "get_clipboard_text" THEN "get_clipboard_text"
                 ELSE "get_clipboard_image"
    /\ imgOut' = Pending
    /\ txtOut' = Pending
    /\ image_data' = None
    /\ text' = None
    /\ mimetype' = None
    /\ result' = NoResult
    /\ img' = NoImage
    /\ data' = <<>>
    /\ pending' = Pending
    /\ opens' = 0
    /\ closes' = 0
    /\ closedUnopened' = FALSE
    /\ pilImport' = "untried"
    /\ grab' = "untried"
    /\ step2' = FALSE
    /\ procs' = <<>>
    /\ imgCalls' = 0
    /\ txtCalls' = 0
    /\ sniffCalls' = 0
    /\ sniffed' = None
    /\ sniffArg' = None
    /\ order' = <<>>
    /\ UNCHANGED <<platform, calls, clipOpen>>

\* ------------------------------------------------------- image backend chain
\* get_clipboard_image(): dispatch on sys.platform.  Every platform's chain
\* begins with "from PIL import ImageGrab".
get_clipboard_image ==
    /\ pc = "get_clipboard_image"
    /\ ~patched
    /\ imgCalls' = imgCalls + 1
    /\ order' = Append(order, "image")
    /\ pc' = "img_import_ImageGrab"
    /\ UNCHANGED <<platform, entry, calls, txtCalls, patched, imgOut, txtOut, img,
                   data, pending, procs>>
    /\ UNCHANGED <<resolverVars, nativeVars, imageStepVars>>

\* patch("llm.clipboard.get_clipboard_image"): the mock returns the value the
\* test gave it, whatever it is (None, b"" or bytes).
mock_get_clipboard_image ==
    /\ pc = "get_clipboard_image"
    /\ patched
    /\ imgCalls' = imgCalls + 1
    /\ order' = Append(order, "image")
    /\ \E v \in {None} \cup {Some(b) : b \in BytesVals} : imgOut' = Ret(v)
    /\ pc' = "img_return"
    /\ UNCHANGED <<platform, entry, calls, txtCalls, patched, txtOut, img, data,
                   pending, procs>>
    /\ UNCHANGED <<resolverVars, nativeVars, imageStepVars>>

\* Where each platform's chain goes on ImportError of PIL.ImageGrab.
ImageFallback(p) ==
    CASE p = "win32" -> "win_img_import_win32clipboard"
      [] p = "darwin" -> "mac_img_osascript"
      [] OTHER -> "linux_img_xclip"

\* from PIL import ImageGrab
image_import_ImageGrab ==
    /\ pc = "img_import_ImageGrab"
    /\ \E ok \in BOOLEAN :
        /\ pilImport' = IF ok THEN "ok" ELSE "ImportError"
        /\ pc' = IF ok THEN "img_grabclipboard" ELSE ImageFallback(platform)
    /\ UNCHANGED <<callVars, imgOut, txtOut, img, data, pending, procs, grab, step2>>
    /\ UNCHANGED <<resolverVars, nativeVars>>

\* img = ImageGrab.grabclipboard(); the test "img is not None and
\* hasattr(img, 'save')".  grabclipboard() returns None, a list of file names
\* (no save attribute), an image, or raises (it raises NotImplementedError on
\* Linux without xclip/wl-paste, OSError on an unreadable clipboard); none of
\* those exceptions is an ImportError, so none is caught.
image_grabclipboard ==
    /\ pc = "img_grabclipboard"
    /\ \/ /\ \E g \in {"None", "filelist"} : grab' = g
          /\ imgOut' = Ret(None)
          /\ pc' = "img_return"
          /\ img' = img
       \/ /\ grab' = "image"
          /\ \E i \in Images : img' = i
          /\ pc' = "img_save"
          /\ imgOut' = imgOut
       \/ /\ grab' = "raise"
          /\ imgOut' = Raise("grabclipboard error")
          /\ pc' = "img_return"
          /\ img' = img
    /\ UNCHANGED <<callVars, txtOut, data, pending, procs, pilImport, step2>>
    /\ UNCHANGED <<resolverVars, nativeVars>>

\* buffer = io.BytesIO(); img.save(buffer, format="PNG");
\* return buffer.getvalue().  An exception of save() is not an ImportError.
image_save ==
    /\ pc = "img_save"
    /\ \/ imgOut' = Ret(Some(PngEncode(img)))
       \/ imgOut' = Raise("save error")
    /\ pc' = "img_return"
    /\ UNCHANGED <<callVars, txtOut, img, data, pending, procs>>
    /\ UNCHANGED <<resolverVars, nativeVars, imageStepVars>>

\* ---- Windows, step 2: the native clipboard API (win32clipboard)
\* import win32clipboard; "except ImportError: return None"
win_img_import_win32clipboard ==
    /\ pc = "win_img_import_win32clipboard"
    /\ step2' = TRUE
    /\ \/ /\ pc' = "win_img_OpenClipboard"
          /\ imgOut' = imgOut
       \/ /\ imgOut' = Ret(None)
          /\ pc' = "img_return"
    /\ UNCHANGED <<callVars, txtOut, img, data, pending, procs, pilImport, grab>>
    /\ UNCHANGED <<resolverVars, nativeVars>>

\* win32clipboard.OpenClipboard(), before the try/finally: it raises
\* pywintypes.error when another process holds the clipboard, and that is not
\* an ImportError.
win_img_OpenClipboard ==
    /\ pc = "win_img_OpenClipboard"
    /\ \/ /\ clipOpen' = TRUE
          /\ opens' = opens + 1
          /\ pc' = "win_img_IsClipboardFormatAvailable"
          /\ imgOut' = imgOut
       \/ /\ imgOut' = Raise("pywintypes.error")
          /\ pc' = "img_return"
          /\ UNCHANGED <<clipOpen, opens>>
    /\ UNCHANGED <<callVars, txtOut, img, data, pending, procs, closes, closedUnopened>>
    /\ UNCHANGED <<resolverVars, imageStepVars>>

\* if win32clipboard.IsClipboardFormatAvailable(CF_DIB): ... else return None
win_img_IsClipboardFormatAvailable ==
    /\ pc = "win_img_IsClipboardFormatAvailable"
    /\ \/ /\ pc' = "win_img_GetClipboardData"
          /\ pending' = pending
       \/ /\ pending' = Ret(None)
          /\ pc' = "win_img_finally"
    /\ UNCHANGED <<callVars, imgOut, txtOut, img, data, procs>>
    /\ UNCHANGED <<resolverVars, nativeVars, imageStepVars>>

\* data = win32clipboard.GetClipboardData(CF_DIB), outside the inner try: a
\* read error leaves through the finally block.
win_img_GetClipboardData_noFinally ==
    /\ pc = "win_img_GetClipboardData"
    /\ \/ /\ \E d \in BytesVals : data' = d
          /\ pc' = "win_img_decode"
          /\ UNCHANGED <<pending, imgOut>>
       \/ /\ imgOut' = Raise("pywintypes.error")
          /\ pc' = "img_return"
          /\ UNCHANGED <<pending, data>>
    /\ UNCHANGED <<callVars, txtOut, img, procs>>
    /\ UNCHANGED <<resolverVars, nativeVars, imageStepVars>>

win_img_GetClipboardData ==
    /\ pc = "win_img_GetClipboardData"
    /\ \/ /\ \E d \in BytesVals : data' = d
          /\ pc' = "win_img_decode"
          /\ pending' = pending
       \/ /\ pending' = Raise("pywintypes.error")
          /\ pc' = "win_img_finally"
          /\ data' = data
    /\ UNCHANGED <<callVars, imgOut, txtOut, img, procs>>
    /\ UNCHANGED <<resolverVars, nativeVars, imageStepVars>>

\* Image.open(io.BytesIO(data)): the device-independent bitmap decoded.
DibDecode(d) == [pixels |-> d]

\* try: from PIL import Image; img = Image.open(...); img.save(...);
\* return buffer.getvalue()  except Exception: return None
win_img_decode ==
    /\ pc = "win_img_decode"
    /\ \/ /\ img' = DibDecode(data)
          /\ pending' = Ret(Some(PngEncode(DibDecode(data))))
       \/ /\ pending' = Ret(None)
          /\ img' = img
    /\ pc' = "win_img_finally"
    /\ UNCHANGED <<callVars, imgOut, txtOut, data, procs>>
    /\ UNCHANGED <<resolverVars, nativeVars, imageStepVars>>

\* finally: win32clipboard.CloseClipboard(), then the pending return or
\* exception leaves the function.
win_img_finally ==
    /\ pc = "win_img_finally"
    /\ closes' = closes + 1
    /\ closedUnopened' = (closedUnopened \/ ~clipOpen)
    /\ clipOpen' = FALSE
    /\ imgOut' = pending
    /\ pc' = "img_return"
    /\ UNCHANGED <<callVars, txtOut, img, data, pending, procs, opens>>
    /\ UNCHANGED <<resolverVars, imageStepVars>>

\* ---- macOS, step 2: osascript
\* result = subprocess.run(["osascript", "-e", script], capture_output=True);
\* every branch returns None, and so does "except Exception".
MacImageResult_parsed(r) ==
    IF r.exc = "none" /\ r.rc = 0 /\ r.out # <<>> THEN Some(r.out) ELSE None

MacImageResult(r) == None

mac_img_osascript ==
    /\ pc = "mac_img_osascript"
    /\ step2' = TRUE
    /\ \E r \in RunResultsBytes("osascript") :
        /\ procs' = Append(procs, r)
        /\ imgOut' = Ret(MacImageResult(r))
    /\ pc' = "img_return"
    /\ UNCHANGED <<callVars, txtOut, img, data, pending, pilImport, grab>>
    /\ UNCHANGED <<resolverVars, nativeVars>>

\* ---- Linux/other, step 2: xclip -t image/png
\* if result.returncode == 0 and result.stdout: return result.stdout
\* return None;  except Exception: return None
LinuxImageResult(r) ==
    IF r.exc = "none" /\ r.rc = 0 /\ r.out # <<>> THEN Some(r.out) ELSE None

linux_img_xclip ==
    /\ pc = "linux_img_xclip"
    /\ step2' = TRUE
    /\ \E r \in RunResultsBytes("xclip -t image/png") :
        /\ procs' = Append(procs, r)
        /\ imgOut' = Ret(LinuxImageResult(r))
    /\ pc' = "img_return"
    /\ UNCHANGED <<callVars, txtOut, img, data, pending, pilImport, grab>>
    /\ UNCHANGED <<resolverVars, nativeVars>>

\* ------------------------------------------------------------- the resolver
\* image_data = get_clipboard_image(): the chain's outcome reaches its caller.
\* No try statement surrounds the call in resolve_clipboard, so an exception
\* of the chain leaves resolve_clipboard as it is.
img_return ==
    /\ pc = "img_return"
    /\ IF entry = "get_clipboard_image"
       THEN /\ result' = IF imgOut.kind = "raise"
                         THEN [kind |-> "exception", exc |-> imgOut.exc]
                         ELSE [kind |-> "value", val |-> imgOut.val]
            /\ pc' = "done"
            /\ image_data' = image_data
       ELSE IF imgOut.kind = "raise"
       THEN /\ result' = [kind |-> "exception", exc |-> imgOut.exc]
            /\ pc' = "done"
            /\ image_data' = image_data
       ELSE /\ image_data' = imgOut.val
            /\ pc' = "resolve_if_image_data"
            /\ result' = result
    /\ UNCHANGED <<callVars, imgOut, txtOut, img, data, pending, procs>>
    /\ UNCHANGED <<text, mimetype, sniffCalls, sniffed, sniffArg, nativeVars,
                   imageStepVars>>

\* if image_data: ... ; otherwise "Fall back to text"
resolve_if_image_data ==
    /\ pc = "resolve_if_image_data"
    /\ pc' = IF Truthy(image_data) THEN "resolve_mimetype" ELSE "get_clipboard_text"
    /\ UNCHANGED <<callVars, imgOut, txtOut, img, data, pending, procs>>
    /\ UNCHANGED <<resolverVars, nativeVars, imageStepVars>>

\* if mimetype is None: mimetype = "image/png"
DefaultMimetype_unset(m) == m

DefaultMimetype(m) == IF m = None THEN Some("image/png") ELSE m

\* Attachment(type=mimetype, path=None, url=None, content=image_data)
MakeAttachment_swapped(mt, content) ==
    [type |-> mt, path |-> Some(content), url |-> None, content |-> None]

MakeAttachment(mt, content) ==
    [type |-> mt, path |-> None, url |-> None, content |-> Some(content)]

\* mimetype = mimetype_from_string(image_data); the default; return Attachment
resolve_mimetype ==
    /\ pc = "resolve_mimetype"
    /\ \E m \in mimetype_from_string_results :
        /\ sniffed' = m
        /\ mimetype' = DefaultMimetype(m)
        /\ result' = [kind |-> "Attachment",
                      att |-> MakeAttachment(DefaultMimetype(m), image_data[1])]
    /\ sniffCalls' = sniffCalls + 1
    /\ sniffArg' = image_data
    /\ pc' = "done"
    /\ UNCHANGED <<callVars, imgOut, txtOut, img, data, pending, procs>>
    /\ UNCHANGED <<image_data, text, nativeVars, imageStepVars>>

\* -------------------------------------------------------- text backend chain
TextEntry(p) ==
    CASE p = "win32" -> "win_txt_import_win32clipboard"
      [] p = "darwin" -> "mac_txt_pbpaste"
      [] OTHER -> "linux_txt_xclip"

\* get_clipboard_text(): dispatch on sys.platform.
get_clipboard_text ==
    /\ pc = "get_clipboard_text"
    /\ ~patched
    /\ txtCalls' = txtCalls + 1
    /\ order' = Append(order, "text")
    /\ pc' = TextEntry(platform)
    /\ UNCHANGED <<platform, entry, calls, imgCalls, patched, imgOut, txtOut, img,
                   data, pending, procs>>
    /\ UNCHANGED <<resolverVars, nativeVars, imageStepVars>>

\* patch("llm.clipboard.get_clipboard_text"): the mock returns the value the
\* test gave it (None, "" or a string).
mock_get_clipboard_text ==
    /\ pc = "get_clipboard_text"
    /\ patched
    /\ txtCalls' = txtCalls + 1
    /\ order' = Append(order, "text")
    /\ \E v \in {None} \cup {Some(t) : t \in StrVals} : txtOut' = Ret(v)
    /\ pc' = "txt_return"
    /\ UNCHANGED <<platform, entry, calls, imgCalls, patched, imgOut, img, data,
                   pending, procs>>
    /\ UNCHANGED <<resolverVars, nativeVars, imageStepVars>>

\* ---- Windows, step 1: win32clipboard; step 2 (on ImportError): tkinter
win_txt_import_win32clipboard ==
    /\ pc = "win_txt_import_win32clipboard"
    /\ \/ pc' = "win_txt_OpenClipboard"
       \/ pc' = "win_txt_tkinter"
    /\ UNCHANGED <<callVars, imgOut, txtOut, img, data, pending, procs>>
    /\ UNCHANGED <<resolverVars, nativeVars, imageStepVars>>

\* win32clipboard.OpenClipboard(), before the try/finally; pywintypes.error
\* is not an ImportError.
win_txt_OpenClipboard ==
    /\ pc = "win_txt_OpenClipboard"
    /\ \/ /\ clipOpen' = TRUE
          /\ opens' = opens + 1
          /\ pc' = "win_txt_IsClipboardFormatAvailable"
          /\ txtOut' = txtOut
       \/ /\ txtOut' = Raise("pywintypes.error")
          /\ pc' = "txt_return"
          /\ UNCHANGED <<clipOpen, opens>>
    /\ UNCHANGED <<callVars, imgOut, img, data, pending, procs, closes, closedUnopened>>
    /\ UNCHANGED <<resolverVars, imageStepVars>>

\* if win32clipboard.IsClipboardFormatAvailable(CF_UNICODETEXT): ...
\* else return None
win_txt_IsClipboardFormatAvailable ==
    /\ pc = "win_txt_IsClipboardFormatAvailable"
    /\ \/ /\ pc' = "win_txt_GetClipboardData"
          /\ pending' = pending
       \/ /\ pending' = Ret(None)
          /\ pc' = "win_txt_finally"
    /\ UNCHANGED <<callVars, imgOut, txtOut, img, data, procs>>
    /\ UNCHANGED <<resolverVars, nativeVars, imageStepVars>>

\* "x if x else None" of a str.
NonEmptyOrNone(s) == IF s # <<>> THEN Some(s) ELSE None

\* data = win32clipboard.GetClipboardData(CF_UNICODETEXT);
\* return data if data else None.  A read error leaves through the finally.
win_txt_GetClipboardData ==
    /\ pc = "win_txt_GetClipboardData"
    /\ \/ \E d \in StrVals :
            /\ data' = d
            /\ pending' = Ret(NonEmptyOrNone(d))
       \/ /\ pending' = Raise("pywintypes.error")
          /\ data' = data
    /\ pc' = "win_txt_finally"
    /\ UNCHANGED <<callVars, imgOut, txtOut, img, procs>>
    /\ UNCHANGED <<resolverVars, nativeVars, imageStepVars>>

\* finally: win32clipboard.CloseClipboard()
win_txt_finally ==
    /\ pc = "win_txt_finally"
    /\ closes' = closes + 1
    /\ closedUnopened' = (closedUnopened \/ ~clipOpen)
    /\ clipOpen' = FALSE
    /\ txtOut' = pending
    /\ pc' = "txt_return"
    /\ UNCHANGED <<callVars, imgOut, img, data, pending, procs, opens>>
    /\ UNCHANGED <<resolverVars, imageStepVars>>

\* import tkinter; root = tk.Tk(); root.withdraw(); text = root.clipboard_get();
\* return text if text else None; tk.TclError and, around it all, Exception
\* give None.
win_txt_tkinter ==
    /\ pc = "win_txt_tkinter"
    /\ \/ \E t \in StrVals : txtOut' = Ret(NonEmptyOrNone(t))
       \/ txtOut' = Ret(None)
    /\ pc' = "txt_return"
    /\ UNCHANGED <<callVars, imgOut, img, data, pending, procs>>
    /\ UNCHANGED <<resolverVars, nativeVars, imageStepVars>>

\* ---- macOS: pbpaste
\* if result.returncode == 0 and result.stdout: return result.stdout
\* return None;  except Exception: return None
MacTextResult(r) ==
    IF r.exc = "none" /\ r.rc = 0 /\ r.out # <<>> THEN Some(r.out) ELSE None

mac_txt_pbpaste ==
    /\ pc = "mac_txt_pbpaste"
    /\ \E r \in RunResultsText("pbpaste") :
        /\ procs' = Append(procs, r)
        /\ txtOut' = Ret(MacTextResult(r))
    /\ pc' = "txt_return"
    /\ UNCHANGED <<callVars, imgOut, img, data, pending>>
    /\ UNCHANGED <<resolverVars, nativeVars, imageStepVars>>

\* ---- Linux/other: xclip, then xsel
\* if result.returncode == 0: return result.stdout if result.stdout else None
\* the function returns here exactly when run() returned with exit code 0.
XclipReturns_nonempty(r) == r.exc = "none" /\ r.rc = 0 /\ r.out # <<>>

XclipReturns(r) == r.exc = "none" /\ r.rc = 0

linux_txt_xclip ==
    /\ pc = "linux_txt_xclip"
    /\ \E r \in RunResultsText("xclip") :
        /\ procs' = Append(procs, r)
        /\ IF XclipReturns(r)
           THEN /\ txtOut' = Ret(NonEmptyOrNone(r.out))
                /\ pc' = "txt_return"
           ELSE /\ txtOut' = txtOut
                /\ pc' = "linux_txt_xsel"
    /\ UNCHANGED <<callVars, imgOut, img, data, pending>>
    /\ UNCHANGED <<resolverVars, nativeVars, imageStepVars>>

\* the xsel try block, then the final "return None"
XselResult(r) ==
    IF r.exc = "none" /\ r.rc = 0 THEN NonEmptyOrNone(r.out) ELSE None

linux_txt_xsel ==
    /\ pc = "linux_txt_xsel"
    /\ \E r \in RunResultsText("xsel") :
        /\ procs' = Append(procs, r)
        /\ txtOut' = Ret(XselResult(r))
    /\ pc' = "txt_return"
    /\ UNCHANGED <<callVars, imgOut, img, data, pending>>
    /\ UNCHANGED <<resolverVars, nativeVars, imageStepVars>>

\* ---- back in the resolver
ClipboardErrorMessage ==
    "Clipboard is empty or contains unsupported content. Supported content types: images (PNG, JPEG, etc.) and text."

\* text = get_clipboard_text(); if text: return text; raise ClipboardError(...)
ResolveText_notNone(t) ==
    IF t # None THEN [kind |-> "str", str |-> t[1]]
    ELSE [kind |-> "ClipboardError", msg |-> ClipboardErrorMessage]

ResolveText_truncated(t) ==
    IF Truthy(t) THEN [kind |-> "str", str |-> SubSeq(t[1], 1, Len(t[1]) - 1)]
    ELSE [kind |-> "ClipboardError", msg |-> ClipboardErrorMessage]

ResolveText(t) ==
    IF Truthy(t) THEN [kind |-> "str", str |-> t[1]]
    ELSE [kind |-> "ClipboardError", msg |-> ClipboardErrorMessage]

txt_return ==
    /\ pc = "txt_return"
    /\ IF entry = "get_clipboard_text"
       THEN /\ result' = IF txtOut.kind = "raise"
                         THEN [kind |-> "exception", exc |-> txtOut.exc]
                         ELSE [kind |-> "value", val |-> txtOut.val]
            /\ text' = text
       ELSE IF txtOut.kind = "raise"
       THEN /\ result' = [kind |-> "exception", exc |-> txtOut.exc]
            /\ text' = text
       ELSE /\ text' = txtOut.val
            /\ result' = ResolveText(txtOut.val)
    /\ pc' = "done"
    /\ UNCHANGED <<callVars, imgOut, txtOut, img, data, pending, procs>>
    /\ UNCHANGED <<image_data, mimetype, sniffCalls, sniffed, sniffArg, nativeVars,
                   imageStepVars>>

\* The call has ended; the caller may call again.
Finish ==
    /\ pc = "done"
    /\ pc' = "idle"
    /\ calls' = calls + 1
    /\ UNCHANGED <<platform, entry, imgCalls, txtCalls, order, patched, imgOut,
                   txtOut, img, data, pending, procs>>
    /\ UNCHANGED <<resolverVars, nativeVars, imageStepVars>>

Next ==
    \/ Call
    \/ get_clipboard_image
    \/ mock_get_clipboard_image
    \/ image_import_ImageGrab
    \/ image_grabclipboard
    \/ image_save
    \/ win_img_import_win32clipboard
    \/ win_img_OpenClipboard
    \/ win_img_IsClipboardFormatAvailable
    \/ win_img_GetClipboardData
    \/ win_img_decode
    \/ win_img_finally
    \/ mac_img_osascript
    \/ linux_img_xclip
    \/ img_return
    \/ resolve_if_image_data
    \/ resolve_mimetype
    \/ get_clipboard_text
    \/ mock_get_clipboard_text
    \/ win_txt_import_win32clipboard
    \/ win_txt_OpenClipboard
    \/ win_txt_IsClipboardFormatAvailable
    \/ win_txt_GetClipboardData
    \/ win_txt_finally
    \/ win_txt_tkinter
    \/ mac_txt_pbpaste
    \/ linux_txt_xclip
    \/ linux_txt_xsel
    \/ txt_return
    \/ Finish

Spec == Init /\ [][Next]_vars

\* ------------------------------------------------------------------ claims
AtEnd == pc = "done"
Resolving == entry = "resolve_clipboard"
ImageReturned == imgOut.kind = "return"
TextReturned == txtOut.kind = "return"

\* C1: whenever get_clipboard_image() returned non-empty bytes,
\* resolve_clipboard() never invokes get_clipboard_text() and returns an
\* Attachment whose content is exactly those bytes, with path and url None.
C1_ImageDominatesText ==
    (Resolving /\ ImageReturned /\ Truthy(imgOut.val)) =>
        /\ txtCalls = 0
        /\ ~(\E i \in 1..Len(order) : order[i] = "text")
        /\ AtEnd =>
            /\ result.kind = "Attachment"
            /\ result.att.content = imgOut.val
            /\ result.att.path = None
            /\ result.att.url = None

C1_Witness ==
    /\ AtEnd /\ Resolving /\ ~patched
    /\ platform = "linux"
    /\ ImageReturned /\ Truthy(imgOut.val)
    /\ result.kind = "Attachment"

\* C2: resolve_clipboard() ends with ClipboardError exactly when the image
\* chain returned None or empty bytes and the text chain then returned None or
\* an empty string; the error carries the "Clipboard is empty ... Supported
\* content types" message.
C2_ClipboardErrorIffBothEmpty ==
    (AtEnd /\ Resolving) =>
        /\ (result.kind = "ClipboardError") <=>
              /\ ImageReturned /\ ~Truthy(imgOut.val)
              /\ TextReturned /\ ~Truthy(txtOut.val)
        /\ (result.kind = "ClipboardError") => result.msg = ClipboardErrorMessage

C2_Witness ==
    /\ AtEnd /\ Resolving
    /\ imgOut = Ret(Some(<<>>))
    /\ txtOut = Ret(Some(<<>>))
    /\ result.kind = "ClipboardError"

\* C3: whenever get_clipboard_image() returned None or empty bytes,
\* resolve_clipboard() has invoked the text chain exactly once, after the
\* image chain, and a non-empty string the text chain returned is the result,
\* unchanged.
C3_TextFallback ==
    (AtEnd /\ Resolving /\ ImageReturned /\ ~Truthy(imgOut.val)) =>
        /\ imgCalls = 1
        /\ txtCalls = 1
        /\ order = <<"image", "text">>
        /\ (TextReturned /\ Truthy(txtOut.val)) =>
            /\ result.kind = "str"
            /\ result.str = txtOut.val[1]

C3_Witness ==
    /\ AtEnd /\ Resolving /\ ~patched
    /\ ImageReturned /\ ~Truthy(imgOut.val)
    /\ TextReturned /\ Truthy(txtOut.val)
    /\ result.kind = "str"

\* C4: mimetype_from_string is called at most once, only on the non-empty
\* image bytes; every Attachment returned carries a set type: the sniffer's
\* label when it returned one, "image/png" when it returned None.
C4_ContentTypeAlwaysSet ==
    /\ sniffCalls <= 1
    /\ sniffCalls = 1 => (sniffArg = imgOut.val /\ Truthy(sniffArg))
    /\ (AtEnd /\ Resolving) =>
        /\ (result.kind = "Attachment") <=> (sniffCalls = 1)
        /\ (result.kind = "Attachment") =>
            /\ result.att.type # None
            /\ sniffed # None => result.att.type = sniffed
            /\ sniffed = None => result.att.type = Some("image/png")

C4_Witness ==
    /\ AtEnd /\ Resolving
    /\ result.kind = "Attachment"
    /\ sniffed = None
    /\ result.att.type = Some("image/png")

\* C5: get_clipboard_image() never raises, on any platform, whatever its
\* backend steps do.
C5_ImageChainNeverRaises ==
    imgOut.kind # "raise"

\* C6: get_clipboard_text() never raises, on any platform, so a call of
\* resolve_clipboard() that reached the text chain ends with a value or with
\* ClipboardError.
C6_TextChainNeverRaises ==
    /\ txtOut.kind # "raise"
    /\ (AtEnd /\ Resolving /\ txtCalls = 1) => result.kind \in {"str", "ClipboardError"}

\* C7: on Windows every successful OpenClipboard() is followed by exactly one
\* CloseClipboard() before the native step returns or fails; the clipboard is
\* open only inside the try/finally of a native step, and CloseClipboard() is
\* never called on a clipboard that was not opened.
InNativeStep ==
    pc \in {"win_img_IsClipboardFormatAvailable", "win_img_GetClipboardData",
            "win_img_decode", "win_img_finally",
            "win_txt_IsClipboardFormatAvailable", "win_txt_GetClipboardData",
            "win_txt_finally"}

C7_OpenCloseBalanced ==
    /\ ~closedUnopened
    /\ InNativeStep => (clipOpen /\ opens = closes + 1)
    /\ ~InNativeStep => (~clipOpen /\ opens = closes)

C7_Witness ==
    /\ AtEnd /\ platform = "win32"
    /\ result.kind = "exception"
    /\ opens >= 1
    /\ closes = opens

\* The processes of the text chain run by this call.
IsTextProc(r) == r.cmd \in {"xclip", "xsel", "pbpaste"}
TextProcs == SelectSeq(procs, IsTextProc)
LinuxTextDone == platform = "linux" /\ ~patched /\ TextReturned
XselInvoked == Len(TextProcs) = 2

\* C8 as stated: xsel is invoked exactly when xclip failed to launch or exited
\* non-zero; an xclip that exits zero gives the result and xsel is not run; an
\* invoked xsel gives its non-empty output on a zero exit, None otherwise.
C8_AsStated ==
    LinuxTextDone =>
        /\ Len(TextProcs) \in {1, 2}
        /\ TextProcs[1].cmd = "xclip"
        /\ XselInvoked <=>
              (TextProcs[1].exc = "FileNotFoundError" \/ TextProcs[1].rc # 0)
        /\ (TextProcs[1].exc # "FileNotFoundError" /\ TextProcs[1].rc = 0) =>
              (~XselInvoked /\ txtOut.val = NonEmptyOrNone(TextProcs[1].out))

\* C8, amended: xsel is invoked exactly when the xclip invocation raised (the
\* launch failed, or run() raised for another reason such as undecodable
\* output) or exited non-zero; an xclip invocation that completes with exit
\* code zero gives the result (None if its output is empty) and xsel is not
\* run; an invoked xsel gives its non-empty output when its invocation
\* completes with exit code zero, None otherwise; at most two processes.
C8_XselIffXclipFailed ==
    LinuxTextDone =>
        /\ Len(TextProcs) \in {1, 2}
        /\ TextProcs[1].cmd = "xclip"
        /\ XselInvoked <=> (TextProcs[1].exc # "none" \/ TextProcs[1].rc # 0)
        /\ ~XselInvoked => txtOut.val = NonEmptyOrNone(TextProcs[1].out)
        /\ XselInvoked =>
            /\ TextProcs[2].cmd = "xsel"
            /\ txtOut.val =
                 IF TextProcs[2].exc = "none" /\ TextProcs[2].rc = 0
                    /\ TextProcs[2].out # <<>>
                 THEN Some(TextProcs[2].out) ELSE None

C8_Witness ==
    /\ LinuxTextDone
    /\ XselInvoked
    /\ TextProcs[1].exc = "none" /\ TextProcs[1].rc = 1
    /\ Truthy(txtOut.val)

\* C9 as stated: step 2 of the image chain is attempted only when PIL's
\* ImageGrab cannot be imported; with the library available and no image on
\* the clipboard the chain returns None, and with an image grabbed it returns
\* the image's PNG encoding, in both cases without attempting step 2.
ImageChainEnded ==
    /\ imgCalls = 1 /\ ~patched
    /\ pc \notin {"img_import_ImageGrab", "img_grabclipboard", "img_save"}

C9_Step2OnlyWhenUnavailable ==
    /\ step2 => pilImport = "ImportError"
    /\ (ImageChainEnded /\ grab \in {"None", "filelist"}) =>
          (imgOut = Ret(None) /\ ~step2)
    /\ (ImageChainEnded /\ grab = "image") =>
          (imgOut = Ret(Some(PngEncode(img))) /\ ~step2)

\* The part of C9 that the code keeps: step 2 is attempted only after the
\* ImportError, never after grabclipboard() was called, and a chain that
\* returned after step 1 returned None or the PNG encoding of the image.
C9_OrderingKept ==
    /\ step2 => (pilImport = "ImportError" /\ grab = "untried")
    /\ (ImageChainEnded /\ ImageReturned /\ grab \in {"None", "filelist"}) =>
          imgOut = Ret(None)
    /\ (ImageChainEnded /\ ImageReturned /\ grab = "image") =>
          imgOut = Ret(Some(PngEncode(img)))

\* The part of C6 that the code keeps: the macOS and Linux text chains absorb
\* every failure of their processes.
C6_PosixTextAbsorbs ==
    platform # "win32" => txtOut.kind # "raise"

\* C10: on macOS with PIL's ImageGrab unavailable, get_clipboard_image()
\* returns None whatever osascript did, and resolve_clipboard() goes on to the
\* text chain.
MacFallbackRan ==
    /\ platform = "darwin"
    /\ pilImport = "ImportError"
    /\ pc # "mac_img_osascript"

C10_MacScriptNeverYieldsImage ==
    MacFallbackRan =>
        /\ Len(procs) >= 1
        /\ procs[1].cmd = "osascript"
        /\ imgOut = Ret(None)
        /\ (AtEnd /\ Resolving) => (txtCalls = 1 /\ result.kind # "Attachment")

C10_Witness ==
    /\ MacFallbackRan
    /\ AtEnd /\ Resolving
    /\ procs[1].exc = "none" /\ procs[1].rc = 0 /\ procs[1].out # <<>>
    /\ txtCalls = 1
====
